---- MODULE Spec2Model ----
(***************************************************************************)
(* Model of conan-doxygen (src/src/main.rs): the documentation pipeline    *)
(* Inspect -> Install -> Locate -> ResolveOutput -> Render -> Generate ->   *)
(* (Open), together with the text functions it applies to the output of    *)
(* the package manager.                                                     *)
(*                                                                         *)
(* Text is a sequence of one-character strings; BadByte stands for a byte  *)
(* sequence that is not valid UTF-8.                                       *)
(***************************************************************************)
EXTENDS Integers, Sequences, FiniteSets, TLC

\* ------------------------------------------------------------------ bounds
MaxReq == 2
MaxNodes == 2
MaxRuns == 2

\* ------------------------------------------------------------- characters
BadByte == "<ff>"
NL == "\n"
White == {" ", "\n", "\t"}

OkResult(v) == [ok |-> TRUE, val |-> v]
ErrResult == [ok |-> FALSE, val |-> <<>>]

\* String::from_utf8 / Path::to_str: fails on a byte that is not UTF-8.
from_utf8(bytes) ==
  IF \E i \in 1..Len(bytes) : bytes[i] = BadByte THEN ErrResult ELSE OkResult(bytes)

\* [String]::join(sep)
RECURSIVE Join(_, _)
Join(ss, sep) ==
  IF ss = <<>> THEN <<>>
  ELSE IF Len(ss) = 1 THEN ss[1]
  ELSE ss[1] \o sep \o Join(Tail(ss), sep)

\* str::split(c): the segments between the occurrences of c, empty ones kept.
RECURSIVE Split(_, _)
Split(s, c) ==
  IF \E i \in 1..Len(s) : s[i] = c
  THEN LET i == CHOOSE k \in 1..Len(s) : s[k] = c /\ \A j \in 1..(k - 1) : s[j] # c
       IN <<SubSeq(s, 1, i - 1)>> \o Split(SubSeq(s, i + 1, Len(s)), c)
  ELSE <<s>>

RECURSIVE trim_start_matches(_, _)
trim_start_matches(s, c) ==
  IF s # <<>> /\ Head(s) = c THEN trim_start_matches(Tail(s), c) ELSE s

RECURSIVE trim_end_matches(_, _)
trim_end_matches(s, c) ==
  IF s # <<>> /\ s[Len(s)] = c THEN trim_end_matches(SubSeq(s, 1, Len(s) - 1), c) ELSE s

RECURSIVE TrimStart(_)
TrimStart(s) == IF s # <<>> /\ Head(s) \in White THEN TrimStart(Tail(s)) ELSE s

RECURSIVE TrimEnd(_)
TrimEnd(s) ==
  IF s # <<>> /\ s[Len(s)] \in White THEN TrimEnd(SubSeq(s, 1, Len(s) - 1)) ELSE s

\* str::trim
Trim(s) == TrimEnd(TrimStart(s))

\* str::replace(c, "")
Remove(s, c) == SelectSeq(s, LAMBDA x : x # c)

Map(f(_), s) == [i \in 1..Len(s) |-> f(s[i])]

\* ------------------------------------------------- inspect: requires parser
ParseElement(s) == Remove(Trim(trim_end_matches(trim_start_matches(s, "["), "]")), "'")

ParseRequires(text) == Map(ParseElement, Split(text, ","))

\* ------------------------------------------------------------- JSON values
\* A value is [t, s, kids]: t is "str", "num", "arr" or "obj"; s the text of
\* a string or number; kids the elements of an array, or the members
\* [key, val] of an object.
JStr(s) == [t |-> "str", s |-> s, kids |-> <<>>]
JNum(s) == [t |-> "num", s |-> s, kids |-> <<>>]
JArr(vs) == [t |-> "arr", s |-> <<>>, kids |-> vs]
JObj(ms) == [t |-> "obj", s |-> <<>>, kids |-> ms]
Member(k, v) == [key |-> k, val |-> v]

Digits == {"0", "1", "2", "3", "4", "5", "6", "7", "8", "9"}
JsonWhite == {" ", "\n", "\t", "\r"}

ParseFail == [ok |-> FALSE, val |-> JNum(<<>>), rest |-> <<>>]
Parsed(v, rest) == [ok |-> TRUE, val |-> v, rest |-> rest]

RECURSIVE SkipWs(_)
SkipWs(s) == IF s # <<>> /\ Head(s) \in JsonWhite THEN SkipWs(Tail(s)) ELSE s

StartsWith(s, c) == s # <<>> /\ Head(s) = c

\* A string literal: from the opening quote to the next quote.
ParseString(s) ==
  IF ~StartsWith(s, "\"") \/ ~(\E j \in 2..Len(s) : s[j] = "\"") THEN ParseFail
  ELSE LET j == CHOOSE k \in 2..Len(s) : s[k] = "\"" /\ \A i \in 2..(k - 1) : s[i] # "\""
       IN Parsed(JStr(SubSeq(s, 2, j - 1)), SubSeq(s, j + 1, Len(s)))

RECURSIVE DigitRun(_)
DigitRun(s) == IF s # <<>> /\ Head(s) \in Digits THEN 1 + DigitRun(Tail(s)) ELSE 0

ParseNumber(s) ==
  LET n == DigitRun(s)
  IN IF n = 0 THEN ParseFail ELSE Parsed(JNum(SubSeq(s, 1, n)), SubSeq(s, n + 1, Len(s)))

RECURSIVE ParseValue(_), ParseElems(_, _), ParseMembers(_, _)

\* The elements of an array after "[" and the elements acc already read.
ParseElems(s, acc) ==
  LET e == ParseValue(s)
      r == SkipWs(e.rest)
  IN IF ~e.ok THEN ParseFail
     ELSE IF StartsWith(r, ",") THEN ParseElems(Tail(r), Append(acc, e.val))
     ELSE IF StartsWith(r, "]") THEN Parsed(JArr(Append(acc, e.val)), Tail(r))
     ELSE ParseFail

\* The members of an object after "{" and the members acc already read.
ParseMembers(s, acc) ==
  LET k == ParseString(SkipWs(s))
      c == SkipWs(k.rest)
      v == ParseValue(Tail(c))
      r == SkipWs(v.rest)
  IN IF ~k.ok \/ ~StartsWith(c, ":") THEN ParseFail
     ELSE IF ~v.ok THEN ParseFail
     ELSE IF StartsWith(r, ",") THEN ParseMembers(Tail(r), Append(acc, Member(k.val.s, v.val)))
     ELSE IF StartsWith(r, "}") THEN Parsed(JObj(Append(acc, Member(k.val.s, v.val))), Tail(r))
     ELSE ParseFail

ParseValue(s0) ==
  LET s == SkipWs(s0)
  IN IF s = <<>> THEN ParseFail
     ELSE IF Head(s) = "\"" THEN ParseString(s)
     ELSE IF Head(s) \in Digits THEN ParseNumber(s)
     ELSE IF Head(s) = "["
          THEN IF StartsWith(SkipWs(Tail(s)), "]")
               THEN Parsed(JArr(<<>>), Tail(SkipWs(Tail(s))))
               ELSE ParseElems(Tail(s), <<>>)
     ELSE IF Head(s) = "{"
          THEN IF StartsWith(SkipWs(Tail(s)), "}")
               THEN Parsed(JObj(<<>>), Tail(SkipWs(Tail(s))))
               ELSE ParseMembers(Tail(s), <<>>)
     ELSE ParseFail

\* serde_json::from_str::<Vec<Value>>: one array and nothing but white space
\* after it.
from_str(text) ==
  LET s == SkipWs(text)
      p == ParseValue(s)
  IN IF ~StartsWith(s, "[") \/ ~p.ok \/ SkipWs(p.rest) # <<>> THEN ErrResult
     ELSE OkResult(p.val.kids)

\* Value::get(key): the member of an object, None for any other value.
Get(obj, key) ==
  IF obj.t = "obj" /\ \E i \in 1..Len(obj.kids) : obj.kids[i].key = key
  THEN LET i == CHOOSE k \in 1..Len(obj.kids) :
                  obj.kids[k].key = key /\ \A j \in (k + 1)..Len(obj.kids) : obj.kids[j].key # key
       IN OkResult(obj.kids[i].val)
  ELSE ErrResult

\* json.dumps of the package manager: ", " between items, ": " after a key.
RECURSIVE Dump(_), DumpItems(_, _)
DumpItems(kids, isObj) ==
  IF kids = <<>> THEN <<>>
  ELSE (IF isObj THEN <<"\"">> \o kids[1].key \o <<"\"", ":", " ">> \o Dump(kids[1].val)
        ELSE Dump(kids[1]))
       \o (IF Len(kids) > 1 THEN <<",", " ">> ELSE <<>>)
       \o DumpItems(Tail(kids), isObj)

Dump(v) ==
  IF v.t = "str" THEN <<"\"">> \o v.s \o <<"\"">>
  ELSE IF v.t = "num" THEN v.s
  ELSE IF v.t = "arr" THEN <<"[">> \o DumpItems(v.kids, FALSE) \o <<"]">>
  ELSE <<"{">> \o DumpItems(v.kids, TRUE) \o <<"}">>

\* --------------------------------------------------------- the environment
\* The package named on the command line, as the package manager knows it.
RefPkg == <<"p", "k", "g">>
DepIds == {<<"x">>, <<"a", "/", "1">>}
DepLists == UNION {[1..n -> DepIds] : n \in 0..MaxReq}

PackageFolderKey == <<"p", "a", "c", "k", "a", "g", "e", "_", "f", "o", "l", "d", "e", "r">>
NodeA == JObj(<<Member(PackageFolderKey, JStr(<<"/", "p", "/", "a">>))>>)
NodeB == JObj(<<Member(PackageFolderKey, JStr(<<"/", "p", "/", "b">>))>>)
NodeOther == JObj(<<Member(<<"o", "t", "h", "e", "r">>, JNum(<<"1">>))>>)
NodeNum == JObj(<<Member(PackageFolderKey, JNum(<<"1">>))>>)
NodeKinds == {NodeA, NodeB, NodeOther, NodeNum}
Graphs == UNION {[1..n -> NodeKinds] : n \in 0..MaxNodes}

\* str() of a Python list of strings, the text of `inspect --raw requires`.
RECURSIVE PyReprItems(_)
PyReprItems(ids) ==
  IF ids = <<>> THEN <<>>
  ELSE <<"'">> \o Head(ids) \o <<"'">>
       \o (IF Len(ids) > 1 THEN <<",", " ">> ELSE <<>>) \o PyReprItems(Tail(ids))

PyRepr(ids) == <<"[">> \o PyReprItems(ids) \o <<"]">>

\* The text of `info --paths --json`: diagnostic lines, then the array line;
\* shape says whether the text ends with the array or with a newline.
DiagLine == <<"W", "A", "R", "N", ":", " ", "w">>
InfoShapes == {"bare", "newline", "diag", "diag_newline"}
InfoText(graph, shape) ==
  (IF shape \in {"diag", "diag_newline"} THEN DiagLine \o <<NL>> ELSE <<>>)
  \o Dump(JArr(graph))
  \o (IF shape \in {"newline", "diag_newline"} THEN <<NL>> ELSE <<>>)

\* Reports that are not a JSON array in their last line.
BrokenInfo == {<<>>, <<"E", "R", "R", "O", "R", ":", " ", "w">>, <<"[", "{">>, <<BadByte>>}

NameOutputs == {<<"f", "o", "o">>, <<>>, <<BadByte>>}
VersionOutputs == {<<"1", ".", "2">>}

\* The template file ./template/DoxyFile.hbs: text and the four placeholders,
\* {{field}} (HTML-escaped by the engine) or {{{field}}} (verbatim).
Lit(text) == [kind |-> "lit", text |-> text, field |-> "none"]
Var(field) == [kind |-> "var", text |-> <<>>, field |-> field]
RawVar(field) == [kind |-> "raw", text |-> <<>>, field |-> field]
TemplateEscaped ==
  <<Lit(<<"N", "=">>), Var("name"), Lit(<<"\n", "V", "=">>), Var("version"),
    Lit(<<"\n", "I", "=">>), Var("sources"), Lit(<<"\n", "O", "=">>), Var("output"), Lit(<<NL>>)>>
TemplateRaw ==
  <<Lit(<<"N", "=">>), RawVar("name"), Lit(<<"\n", "V", "=">>), RawVar("version"),
    Lit(<<"\n", "I", "=">>), RawVar("sources"), Lit(<<"\n", "O", "=">>), RawVar("output"), Lit(<<NL>>)>>
TemplateFiles ==
  {[state |-> "ok", chunks |-> TemplateEscaped], [state |-> "ok", chunks |-> TemplateRaw],
   [state |-> "missing", chunks |-> <<>>], [state |-> "malformed", chunks |-> <<>>]}

\* handlebars::html_escape (the grave accent, which it also escapes, is not a
\* character of this model)
EscapeChar(c) ==
  IF c = "&" THEN <<"&", "a", "m", "p", ";">>
  ELSE IF c = "<" THEN <<"&", "l", "t", ";">>
  ELSE IF c = ">" THEN <<"&", "g", "t", ";">>
  ELSE IF c = "\"" THEN <<"&", "q", "u", "o", "t", ";">>
  ELSE IF c = "'" THEN <<"&", "#", "x", "2", "7", ";">>
  ELSE IF c = "=" THEN <<"&", "#", "x", "3", "D", ";">>
  ELSE <<c>>

RECURSIVE html_escape(_)
html_escape(s) == IF s = <<>> THEN <<>> ELSE EscapeChar(Head(s)) \o html_escape(Tail(s))

\* Handlebars::render_to_write: the template's text with every placeholder
\* replaced by the value of its field.
RECURSIVE RenderChunks(_, _)
RenderChunks(chunks, data) ==
  IF chunks = <<>> THEN <<>>
  ELSE (IF Head(chunks).kind = "lit" THEN Head(chunks).text
        ELSE IF Head(chunks).kind = "var" THEN html_escape(data[Head(chunks).field])
        ELSE data[Head(chunks).field])
       \o RenderChunks(Tail(chunks), data)

\* ---------------------------------------------------------- the file system
\* fs.dirs: the directories that exist; fs.files: the contents of the files.
EmptyFs == [dirs |-> {}, files |-> <<>>]
FileExists(f, path) == path \in DOMAIN f.files

\* fs::create_dir_all: the directory and every missing ancestor.
Ancestors(path) ==
  {SubSeq(path, 1, i - 1) : i \in {k \in 2..Len(path) : path[k] = "/"}}
create_dir_all(f, path) == [f EXCEPT !.dirs = f.dirs \cup Ancestors(path) \cup {path}]

\* A file with the given contents in place of whatever was at path.
PutFile(f, path, contents) ==
  [f EXCEPT !.files = [q \in DOMAIN f.files \cup {path} |->
                         IF q = path THEN contents ELSE f.files[q]]]

\* File::create: a new empty file, or the existing one truncated.
FileCreate(f, path) == PutFile(f, path, <<>>)

\* Write at the end of an open file.
FileWrite(f, path, bytes) == PutFile(f, path, f.files[path] \o bytes)

\* Variant of canonicalize: the path is made absolute without looking at the
\* file system.
canonicalize_lexical(f, dir, path) ==
  IF StartsWith(path, "/") THEN OkResult(path)
  ELSE OkResult(dir \o <<"/">> \o path)

\* Path::canonicalize: the absolute path of an existing file, under the
\* working directory dir when path is relative.
canonicalize(f, dir, path) ==
  IF ~FileExists(f, path) THEN ErrResult
  ELSE IF StartsWith(path, "/") THEN OkResult(path)
  ELSE OkResult(dir \o <<"/">> \o path)

\* ------------------------------------------------------- results of a stage
Ok(v) == [ok |-> TRUE, val |-> v, err |-> "none"]
Fail(e) == [ok |-> FALSE, val |-> <<>>, err |-> e]

Utf8(bytes) == IF from_utf8(bytes).ok THEN Ok(bytes) ELSE Fail("utf8")

\* ------------------------------------------------------------------ inspect
\* The three answers of the package manager, once all three calls were
\* launched.
inspect(out) ==
  LET name == Utf8(out.name)
      version == Utf8(out.version)
      requires == Utf8(out.requires)
  IN IF ~name.ok THEN Fail("utf8")
     ELSE IF ~version.ok THEN Fail("utf8")
     ELSE IF ~requires.ok THEN Fail("utf8")
     ELSE Ok([name |-> name.val, version |-> version.val,
              requires |-> ParseRequires(requires.val)])

\* ----------------------------------------------------------- gather_sources
\* temp.last(): the last segment of the split.
LastLine(temp) == temp[Len(temp)]

\* Variant of PackageFolders: each folder is put in front of the others.
RECURSIVE PackageFoldersReversed(_)
PackageFoldersReversed(objs) ==
  IF objs = <<>> THEN <<>>
  ELSE LET val == Get(Head(objs), PackageFolderKey)
       IN PackageFoldersReversed(Tail(objs))
          \o (IF val.ok /\ val.val.t = "str" THEN <<val.val.s>> ELSE <<>>)

\* The loop over the objects of the array.
RECURSIVE PackageFolders(_)
PackageFolders(objs) ==
  IF objs = <<>> THEN <<>>
  ELSE LET val == Get(Head(objs), PackageFolderKey)
       IN (IF val.ok /\ val.val.t = "str" THEN <<val.val.s>> ELSE <<>>)
          \o PackageFolders(Tail(objs))

SourcesOf(src_pkg) == src_pkg \o <<"/", "s", "o", "u", "r", "c", "e", "s">>

\* Variant of gather_sources: a report that cannot be read gives no folders.
gather_sources_lenient(src_pkg, stdout) ==
  LET info_output_raw_str == Utf8(stdout)
      temp == Split(info_output_raw_str.val, NL)
      info_json_obj == from_str(LastLine(temp))
  IN IF ~info_output_raw_str.ok \/ ~info_json_obj.ok THEN Ok(<<>>)
     ELSE Ok(Append(PackageFolders(info_json_obj.val), SourcesOf(src_pkg)))

gather_sources(src_pkg, stdout) ==
  LET info_output_raw_str == Utf8(stdout)
      temp == Split(info_output_raw_str.val, NL)
      info_json_obj == from_str(LastLine(temp))
  IN IF ~info_output_raw_str.ok THEN Fail("utf8")
     ELSE IF ~info_json_obj.ok THEN Fail("json")
     ELSE Ok(Append(PackageFolders(info_json_obj.val), SourcesOf(src_pkg)))

\* ------------------------------------------------------------ resolve output
NoPath == [some |-> FALSE, path |-> <<>>]
SomePath(p) == [some |-> TRUE, path |-> p]

OutputDefault(src_pkg, name, version) ==
  src_pkg \o <<"/", "b", "u", "i", "l", "d", "/", "d", "o", "c", "s", "/">>
          \o name \o <<"_">> \o version

\* Variant of UnwrapOr: the default wins over the user's path.
UnwrapOrDefault(out, default) == default

\* args.out.unwrap_or(output_default)
UnwrapOr(out, default) == IF out.some THEN out.path ELSE default

ResolveOutputPath(out, src_pkg, name, version) ==
  LET chosen == UnwrapOr(out, OutputDefault(src_pkg, name, version))
  IN IF from_utf8(chosen).ok THEN Ok(chosen) ELSE Fail("path_encoding")

\* -------------------------------------------------------- generate_doxyfile
DoxyFolder(output_str) == output_str \o <<"/", ".", "d", "o", "x", "y">>
DoxyFile(output_str) == DoxyFolder(output_str) \o <<"/", "D", "o", "x", "y", "F", "i", "l", "e">>
\* Variant of EntryPage: the page is looked for under the config folder.
EntryPageUnderDoxy(output_str) ==
  DoxyFolder(output_str)
    \o <<"/", "h", "t", "m", "l", "/", "i", "n", "d", "e", "x", ".", "h", "t", "m", "l">>

EntryPage(output_str) ==
  output_str \o <<"/", "h", "t", "m", "l", "/", "i", "n", "d", "e", "x", ".", "h", "t", "m", "l">>

HandlebarData(name, version, sources_str, output_str) ==
  [name |-> name, version |-> version, sources |-> sources_str, output |-> output_str]

\* Variant of OpenedFile: an existing file is opened for appending.
OpenedFileAppend(f, path) == IF FileExists(f, path) THEN f ELSE FileCreate(f, path)

\* The open mode of File::create: what of the old contents is kept.
OpenedFile(f, path) == FileCreate(f, path)

\* Variant of generate_doxyfile: the template is loaded before the config file
\* is created.
generate_doxyfile_template_first(f, tpl, io, name, version, sources_str, output_str) ==
  LET data == HandlebarData(name, version, sources_str, output_str)
      f1 == create_dir_all(f, DoxyFolder(output_str))
      f2 == OpenedFile(f1, DoxyFile(output_str))
      text == RenderChunks(tpl.chunks, data)
  IN IF io = "mkdir" THEN [fs |-> f, res |-> Fail("panic")]
     ELSE IF tpl.state # "ok" THEN [fs |-> f1, res |-> Fail("template")]
     ELSE IF io = "create" THEN [fs |-> f1, res |-> Fail("io")]
     ELSE IF io = "write" THEN [fs |-> f2, res |-> Fail("io")]
     ELSE [fs |-> FileWrite(f2, DoxyFile(output_str), text),
           res |-> Ok(DoxyFile(output_str))]

\* io says which system call fails, if any: "mkdir", "create", "write".
\* The result is the file system left behind and the outcome.
generate_doxyfile(f, tpl, io, name, version, sources_str, output_str) ==
  LET data == HandlebarData(name, version, sources_str, output_str)
      f1 == create_dir_all(f, DoxyFolder(output_str))
      f2 == OpenedFile(f1, DoxyFile(output_str))
      text == RenderChunks(tpl.chunks, data)
  IN IF io = "mkdir" THEN [fs |-> f, res |-> Fail("panic")]
     ELSE IF io = "create" THEN [fs |-> f1, res |-> Fail("io")]
     ELSE IF tpl.state # "ok" THEN [fs |-> f2, res |-> Fail("template")]
     ELSE IF io = "write" THEN [fs |-> f2, res |-> Fail("io")]
     ELSE [fs |-> FileWrite(f2, DoxyFile(output_str), text),
           res |-> Ok(DoxyFile(output_str))]

\* -------------------------------------------------------------------- state
VARIABLES
  run,            \* the number of the current run of the program
  pc,             \* the stage main is about to enter, or "exited"
  args,           \* Arguments: src, out, open (valid: the command line parses)
  cwd,            \* the working directory of the process
  pkg,            \* the package: its declared requires and its graph nodes
  conan,          \* what the package manager prints for name, version,
                  \* requires and info
  template,       \* the file ./template/DoxyFile.hbs
  fs,             \* the output tree
  name, version, requires, source_folders, output_str, doxy_file_out, status,
                  \* the locals of main
  result,         \* "running", or how main ended: "ok", "err", "panic"
  err,            \* the error main ended with
  stages,         \* the stages entered in this run, each with its outcome
  cmds,           \* the external commands attempted in this run
  ui,             \* indicator events and printed lines of this run
  renders         \* history: the successful calls of generate_doxyfile of all
                  \* runs, each with its arguments and the DoxyFile it left

vars == <<run, pc, args, cwd, pkg, conan, template, fs, name, version, requires,
          source_folders, output_str, doxy_file_out, status, result, err,
          stages, cmds, ui, renders>>

env == <<cwd, pkg, conan, template>>
locals == <<name, version, requires, source_folders, output_str, doxy_file_out, status>>

\* The command lines the user may give.
SrcArgs == {RefPkg, <<".">>, <<BadByte>>}
OutArgs == {NoPath, SomePath(<<"/", "c">>), SomePath(<<"/", "c", "&">>), SomePath(<<BadByte>>)}
\* A command line without the package reference: clap rejects it.
InvalidArguments == [src |-> <<>>, out |-> NoPath, open |-> FALSE, valid |-> FALSE]
\* Every --out and --open with the usual reference, and the other references
\* on their own.
Arguments ==
  [src : {RefPkg}, out : OutArgs, open : BOOLEAN, valid : {TRUE}]
  \cup [src : SrcArgs, out : {NoPath}, open : {FALSE}, valid : {TRUE}]
  \cup {InvalidArguments}
WorkDirs == {<<"/", "w">>, <<"/", BadByte>>}

\* The environments of a run: the usual one, and each way one part of it may
\* differ: the working directory, the template, the printed name, the
\* declared requires, the reported graph and the shape of the report.
DefaultRequires == <<>>
DefaultGraph == <<NodeA, NodeB>>
BaseEnv ==
  [cwd |-> <<"/", "w">>,
   pkg |-> [requires |-> DefaultRequires, graph |-> DefaultGraph],
   conan |-> [name |-> <<"f", "o", "o">>, version |-> <<"1", ".", "2">>,
              requires |-> PyRepr(DefaultRequires),
              info |-> InfoText(DefaultGraph, "bare")],
   template |-> [state |-> "ok", chunks |-> TemplateEscaped]]

Envs ==
  {[BaseEnv EXCEPT !.cwd = d] : d \in WorkDirs}
  \cup {[BaseEnv EXCEPT !.template = t] : t \in TemplateFiles}
  \cup {[BaseEnv EXCEPT !.conan.name = n, !.conan.version = v] :
          n \in NameOutputs, v \in VersionOutputs}
  \cup {[BaseEnv EXCEPT !.pkg.requires = r, !.conan.requires = PyRepr(r)] : r \in DepLists}
  \cup {[BaseEnv EXCEPT !.conan.requires = <<BadByte>>]}
  \cup {[BaseEnv EXCEPT !.pkg.graph = g, !.conan.info = InfoText(g, "bare")] : g \in Graphs}
  \cup {[BaseEnv EXCEPT !.conan.info = InfoText(DefaultGraph, sh)] : sh \in InfoShapes}
  \cup {[BaseEnv EXCEPT !.conan.info = b] : b \in BrokenInfo}

Init ==
  /\ run = 1
  /\ pc = "main"
  /\ args \in Arguments
  /\ \E e \in Envs :
       cwd = e.cwd /\ pkg = e.pkg /\ conan = e.conan /\ template = e.template
  /\ fs = EmptyFs
  /\ name = <<>> /\ version = <<>> /\ requires = <<>> /\ source_folders = <<>>
  /\ output_str = <<>> /\ doxy_file_out = <<>> /\ status = "none"
  /\ result = "running" /\ err = "none"
  /\ stages = <<>> /\ cmds = <<>> /\ ui = <<>>
  /\ renders = <<>>

\* ------------------------------------------------------------------ helpers
Cmd(c, launched, exit) == [cmd |-> c, launched |-> launched, exit |-> exit]
Stage(st, outcome) == [stage |-> st, outcome |-> outcome]

\* with_progress_bar: the indicator starts, the work runs, the indicator is
\* finished with the work's message; a panic of the work unwinds through it.
with_progress_bar(st, res) ==
  <<[ev |-> "start", what |-> st]>>
  \o (IF res.ok THEN <<[ev |-> "finish_ok", what |-> st]>>
      ELSE IF res.err = "panic" THEN <<>>
      ELSE <<[ev |-> "finish_error", what |-> st]>>)

Outcome(res) == IF res.ok THEN "ok" ELSE IF res.err = "panic" THEN "panic" ELSE "err"

\* Variant of After: the error of a stage is dropped and main goes on.
AfterIgnoringFailure(res, next) == next

\* Where main goes after a stage with result res: on to the next stage, or
\* out of main with the error.
After(res, next) == IF res.ok THEN next ELSE "exited"

\* The end of a stage st with result res.
EndStage(st, res, next, progress, printed) ==
  /\ stages' = Append(stages, Stage(st, Outcome(res)))
  /\ ui' = ui \o (IF progress THEN with_progress_bar(st, res) ELSE <<>>) \o printed
  /\ pc' = After(res, next)
  /\ result' = IF After(res, next) # "exited" THEN "running"
               ELSE IF res.ok THEN "ok" ELSE Outcome(res)
  /\ err' = IF res.ok THEN "none" ELSE res.err

\* The exit code of the process: 0 for Ok(()), 1 for an Err returned by
\* main, 2 for a command line clap rejects, 101 for a panic.
ExitCode ==
  IF result = "ok" THEN 0
  ELSE IF result = "err" THEN 1
  ELSE IF result = "usage" THEN 2
  ELSE 101

Println(what) == <<[ev |-> "println", what |-> what]>>
Eprintln(what) == <<[ev |-> "eprintln", what |-> what]>>

\* ------------------------------------------------------------------ actions
\* Variant of Main: a package reference that is not text is used as it is.
MainLossy ==
  /\ pc = "main"
  /\ IF ~args.valid
     THEN pc' = "exited" /\ result' = "usage"
     ELSE pc' = "Inspect" /\ result' = result
  /\ UNCHANGED <<renders, run, args, env, fs, locals, err, stages, cmds, ui>>

\* main, lines 150-152: the command line is parsed (or the process exits
\* with a usage error); the package reference as text, or nothing to do.
Main ==
  /\ pc = "main"
  /\ IF ~args.valid
     THEN pc' = "exited" /\ result' = "usage"
     ELSE IF from_utf8(args.src).ok
     THEN pc' = "Inspect" /\ result' = result
     ELSE pc' = "exited" /\ result' = "ok"
  /\ UNCHANGED <<renders, run, args, env, fs, locals, err, stages, cmds, ui>>

\* Variant of InspectCalls: a call that cannot be launched is tried again.
InspectCallsRetrying(failAt) ==
  LET calls == <<"inspect name", "inspect version", "inspect requires">>
      n == IF failAt = 0 THEN 3 ELSE failAt
  IN [i \in 1..n |-> Cmd(calls[i], i # failAt, IF i # failAt THEN "success" ELSE "none")]
     \o (IF failAt = 0 THEN <<>> ELSE <<Cmd(calls[failAt], FALSE, "none")>>)

\* The three `conan inspect` calls up to the first that cannot be launched
\* (failAt = 0: all three are launched).
InspectCalls(failAt) ==
  LET calls == <<"inspect name", "inspect version", "inspect requires">>
      n == IF failAt = 0 THEN 3 ELSE failAt
  IN [i \in 1..n |-> Cmd(calls[i], i # failAt, IF i # failAt THEN "success" ELSE "none")]

\* main, lines 153-160, and inspect.
Inspect ==
  /\ pc = "Inspect"
  /\ \E failAt \in 0..3 :
       LET res == IF failAt # 0 THEN Fail("launch") ELSE inspect(conan)
       IN /\ cmds' = cmds \o InspectCalls(failAt)
          /\ name' = IF res.ok THEN res.val.name ELSE name
          /\ version' = IF res.ok THEN res.val.version ELSE version
          /\ requires' = IF res.ok THEN res.val.requires ELSE requires
          /\ EndStage("Inspect", res, "Install", FALSE,
                      IF res.ok THEN Println("generating") ELSE <<>>)
  /\ UNCHANGED <<renders, run, args, env, fs, source_folders, output_str, doxy_file_out,
                 status>>

\* Variant of conan_install: a non-zero exit of the install is an error too.
conan_install_checked(launched, exit) ==
  IF launched /\ exit = "success" THEN Ok(<<>>) ELSE Fail("launch")

\* conan_install: only a failure to launch is an error.
conan_install(launched, exit) == IF launched THEN Ok(<<>>) ELSE Fail("launch")

\* main, lines 162-165.
Install ==
  /\ pc = "Install"
  /\ \E launched \in BOOLEAN, exit \in {"success", "failure"} :
       /\ launched \/ exit = "failure"
       /\ cmds' = Append(cmds, Cmd("install", launched, IF launched THEN exit ELSE "none"))
       /\ EndStage("Install", conan_install(launched, exit), "Locate", TRUE, <<>>)
  /\ UNCHANGED <<renders, run, args, env, fs, locals>>

\* main, lines 167-170.
Locate ==
  /\ pc = "Locate"
  /\ \E launched \in BOOLEAN :
       LET res == IF launched THEN gather_sources(args.src, conan.info) ELSE Fail("launch")
       IN /\ cmds' = Append(cmds, Cmd("info", launched, IF launched THEN "success" ELSE "none"))
          /\ source_folders' = IF res.ok THEN res.val ELSE source_folders
          /\ EndStage("Locate", res, "ResolveOutput", TRUE, <<>>)
  /\ UNCHANGED <<renders, run, args, env, fs, name, version, requires, output_str,
                 doxy_file_out, status>>

\* main, lines 172-183.
ResolveOutput ==
  /\ pc = "ResolveOutput"
  /\ LET res == ResolveOutputPath(args.out, args.src, name, version)
     IN /\ output_str' = IF res.ok THEN res.val ELSE output_str
        /\ EndStage("ResolveOutput", res, "Render", TRUE, <<>>)
  /\ UNCHANGED <<renders, run, args, env, fs, name, version, requires, source_folders,
                 doxy_file_out, status, cmds>>

IoFaults == {"none", "mkdir", "create", "write"}

\* main, lines 185-188.
Render ==
  /\ pc = "Render"
  /\ \E io \in IoFaults :
       LET g == generate_doxyfile(fs, template, io, name, version,
                                  Join(source_folders, <<" ">>), output_str)
       IN /\ fs' = g.fs
          /\ doxy_file_out' = IF g.res.ok THEN g.res.val ELSE doxy_file_out
          /\ renders' = IF g.res.ok
                        THEN Append(renders,
                               [template |-> template,
                                data |-> HandlebarData(name, version,
                                           Join(source_folders, <<" ">>), output_str),
                                contents |-> g.fs.files[g.res.val]])
                        ELSE renders
          /\ EndStage("Render", g.res, "Generate", TRUE, <<>>)
  /\ UNCHANGED <<run, args, env, name, version, requires, source_folders, output_str,
                 status, cmds>>

\* The output directory the generator reads from the rendered config.
ConfiguredOutput(tpl, out) ==
  IF \E i \in 1..Len(tpl.chunks) : tpl.chunks[i].kind = "var" /\ tpl.chunks[i].field = "output"
  THEN html_escape(out) ELSE out

Html == <<"<", "h", "t", "m", "l", ">">>

\* main, lines 190-206: the generator is launched (or the stage panics),
\* exits with a status, and may have written its entry page.
Generate ==
  /\ pc = "Generate"
  /\ \E launched \in BOOLEAN, exit \in {"success", "failure"}, wrote \in BOOLEAN :
       LET res == IF ~from_utf8(doxy_file_out).ok THEN Fail("path_encoding")
                  ELSE IF ~launched THEN Fail("panic")
                  ELSE Ok(exit)
       IN /\ launched \/ (exit = "failure" /\ ~wrote)
          /\ cmds' = Append(cmds, Cmd("doxygen", launched, IF launched THEN exit ELSE "none"))
          /\ status' = IF res.ok THEN exit ELSE status
          /\ fs' = IF wrote THEN PutFile(fs, EntryPage(ConfiguredOutput(template, output_str)), Html)
                   ELSE fs
          /\ EndStage("Generate", res, "Finish", TRUE, <<>>)
  /\ UNCHANGED <<renders, run, args, env, name, version, requires, source_folders,
                 output_str, doxy_file_out>>

\* Variant of entry_page: a missing entry page is not an error.
entry_page_lenient(st, page) ==
  IF st # "success" THEN Fail("generator") ELSE Ok(page.val)

\* main, lines 209-213 and 222-226: the entry page of a successful
\* generator run as text, or the error main returns.
entry_page(st, page) ==
  IF st # "success" THEN Fail("generator")
  ELSE IF ~page.ok THEN Fail("canonicalize")
  ELSE IF ~from_utf8(page.val).ok THEN Fail("path_encoding")
  ELSE Ok(page.val)

\* Variant of OpensViewer: the flag alone decides.
OpensViewerOnFlag(res, open) == open

\* main, line 216: the viewer is opened.
OpensViewer(res, open) == res.ok /\ open

\* Variant of AfterOpen: the error of open is returned by main.
AfterOpenPropagating(opened) == IF opened THEN "ok" ELSE "err"

\* main, lines 217-220 and 229: the result of main after open returned.
AfterOpen(opened) == "ok"

\* main, lines 208-229: the entry page, the viewer, the result of the run.
Finish ==
  /\ pc = "Finish"
  /\ pc' = "exited"
  /\ LET res == entry_page(status, canonicalize(fs, cwd, EntryPage(output_str)))
     IN IF OpensViewer(res, args.open)
        THEN \E opened \in BOOLEAN :
             /\ result' = AfterOpen(opened) /\ err' = "none"
             /\ cmds' = Append(cmds, Cmd("open", opened, IF opened THEN "success" ELSE "none"))
             /\ stages' = Append(stages, Stage("Open", IF opened THEN "ok" ELSE "warn"))
             /\ ui' = ui \o Println("success")
                         \o (IF opened THEN Println("opened") ELSE Eprintln("open_error"))
        ELSE /\ result' = IF res.ok THEN "ok" ELSE "err"
             /\ err' = res.err
             /\ ui' = ui \o (IF res.ok THEN Println("success") ELSE <<>>)
             /\ UNCHANGED <<stages, cmds>>
  /\ UNCHANGED <<renders, run, args, env, fs, locals>>

\* The user gives the same command again, on the output tree the earlier
\* runs left; the template file may have been edited or removed meanwhile.
NewRun ==
  /\ pc = "exited"
  /\ run < MaxRuns
  /\ run' = run + 1
  /\ pc' = "main"
  /\ name' = <<>> /\ version' = <<>> /\ requires' = <<>> /\ source_folders' = <<>>
  /\ output_str' = <<>> /\ doxy_file_out' = <<>> /\ status' = "none"
  /\ result' = "running" /\ err' = "none"
  /\ stages' = <<>> /\ cmds' = <<>> /\ ui' = <<>>
  /\ template' \in TemplateFiles
  /\ UNCHANGED <<args, cwd, pkg, conan, fs, renders>>

Next ==
  \/ Main
  \/ Inspect
  \/ Install
  \/ Locate
  \/ ResolveOutput
  \/ Render
  \/ Generate
  \/ Finish
  \/ NewRun

Spec == Init /\ [][Next]_vars

\* ============================================================== properties
Order == <<"Inspect", "Install", "Locate", "ResolveOutput", "Render", "Generate", "Open">>
StageDone(i) == Len(stages) >= i
StageOk(i) == Len(stages) >= i /\ stages[i].outcome = "ok"
StageFailed(i) == Len(stages) >= i /\ stages[i].outcome \in {"err", "panic"}
Attempted(c) == \E i \in 1..Len(cmds) : cmds[i].cmd = c
Launched(c) == \E i \in 1..Len(cmds) : cmds[i].cmd = c /\ cmds[i].launched
Exited == pc = "exited"

\* C1: the stages of a run are entered in the fixed order Inspect, Install,
\* Locate, ResolveOutput, Render, Generate, (Open), each only after all the
\* stages before it succeeded; a failed stage is the last stage of its run.
C1_StageOrder ==
  /\ Len(stages) <= Len(Order)
  /\ \A i \in 1..Len(stages) :
       /\ stages[i].stage = Order[i]
       /\ i < Len(stages) => stages[i].outcome = "ok"
  /\ \A i \in 1..Len(stages) :
       stages[i].outcome \in {"err", "panic"} => Exited /\ Len(stages) = i

\* Render failed after four successful stages and the run is over.
C1_Witness ==
  Exited /\ Len(stages) = 5 /\ stages[5].outcome = "err" /\ StageOk(4)

\* C2: the viewer is opened only when the generator exited with success, the
\* entry page exists and --open was set; after a generator failure the run
\* ends with the generator error and the viewer is never opened.
C2_OpenOnlyOnSuccess ==
  /\ Attempted("open") =>
       status = "success" /\ FileExists(fs, EntryPage(output_str)) /\ args.open
  /\ status = "failure" =>
       /\ ~Attempted("open")
       /\ Exited => result = "err" /\ err = "generator"

\* The generator failed in a run with --open, and the run is over.
C2_Witness == Exited /\ status = "failure" /\ args.open /\ Launched("doxygen")

\* C3: when the viewer was attempted, the run ends with success (exit code
\* zero) whether or not the viewer could be opened.
C3_OpenFailureIsWarning ==
  (Exited /\ Attempted("open")) => result = "ok" /\ ExitCode = 0

\* The viewer could not be opened after six successful stages.
C3_Witness ==
  Exited /\ Len(stages) = 7 /\ stages[7].outcome = "warn" /\ ~Launched("open")
  /\ \A i \in 1..6 : stages[i].outcome = "ok"

\* The failures the exit-code sentence lists: inspection, install launch,
\* source location, render, generator non-zero exit.
ListedFailure ==
  \/ \E i \in 1..Len(stages) :
       stages[i].stage \in {"Inspect", "Install", "Locate", "Render"}
       /\ stages[i].outcome # "ok"
  \/ status = "failure"

\* C4 (as stated): in a run whose command line is accepted, the exit code is
\* non-zero exactly when the run failed by one of the listed failures.
C4_ExitCodeAsListed == (Exited /\ args.valid) => (ExitCode # 0 <=> ListedFailure)

\* The failures that end a run besides the listed ones: a rejected command
\* line, an output path or entry-page path that is not text, a generator
\* that cannot be launched, an entry page that does not exist.
UnlistedFailure ==
  \/ ~args.valid
  \/ \E i \in 1..Len(stages) :
       stages[i].stage \in {"ResolveOutput", "Generate"} /\ stages[i].outcome # "ok"
  \/ /\ status = "success"
     /\ \/ ~FileExists(fs, EntryPage(output_str))
        \/ ~StartsWith(output_str, "/") /\ \E k \in 1..Len(cwd) : cwd[k] = BadByte

\* C4 (amended): the exit code is non-zero exactly when the run failed by a
\* listed or an unlisted failure; the viewer has no part in it.
C4_ExitCodeAmended == Exited => (ExitCode # 0 <=> (ListedFailure \/ UnlistedFailure))

\* The generator reported success, the entry page does not exist, and the
\* run ended with a non-zero exit code.
C4_Witness ==
  Exited /\ status = "success" /\ ~FileExists(fs, EntryPage(output_str)) /\ ExitCode = 1

\* C5: inspect parses the list text of the declared requires into the
\* declared identifiers, in order; the empty list gives the empty sequence.
C5_RequiresParsed ==
  (StageOk(1) /\ conan.requires = PyRepr(pkg.requires)) => requires = pkg.requires

\* The folders of the nodes of a graph that have a package_folder string.
FolderOf(node) ==
  LET m == CHOOSE k \in 1..Len(node.kids) : node.kids[k].key = PackageFolderKey
  IN node.kids[m].val.s
HasFolder(node) ==
  \E k \in 1..Len(node.kids) :
    node.kids[k].key = PackageFolderKey /\ node.kids[k].val.t = "str"
FoldersOf(graph) == Map(FolderOf, SelectSeq(graph, HasFolder))

\* C6: the folders gather_sources returns are the package_folder strings of
\* the reported array in its own order, nothing sorted or dropped but the
\* objects without such a string, followed by "<reference>/sources".
C6_FoldersInOrder ==
  (StageOk(3) /\ \E sh \in InfoShapes : conan.info = InfoText(pkg.graph, sh))
    => source_folders = FoldersOf(pkg.graph) \o <<SourcesOf(args.src)>>

\* Two folders reported in descending order were gathered.
C6_Witness ==
  StageOk(3) /\ pkg.graph = <<NodeB, NodeA>> /\ Len(source_folders) = 3

\* C7: whenever the report is diagnostic lines followed by the array line,
\* newline-terminated or not, the array line is the one that is parsed:
\* Locate succeeds with the folders of the array.
C7_LastNonEmptyLine ==
  (StageDone(3) /\ Launched("info")
   /\ \E sh \in InfoShapes : conan.info = InfoText(pkg.graph, sh))
    => StageOk(3) /\ source_folders = FoldersOf(pkg.graph) \o <<SourcesOf(args.src)>>

\* C8: a successful Locate leaves a non-empty folder list ending in
\* "<reference>/sources"; when conan cannot be launched or its report is not
\* text or not a JSON array, Locate fails, the run is over and no folder
\* list, Render or Generate follows.
C8_LocateNonEmptyOrError ==
  /\ StageOk(3) =>
       source_folders # <<>> /\ source_folders[Len(source_folders)] = SourcesOf(args.src)
  /\ (StageDone(3) /\ (~Launched("info") \/ conan.info \in BrokenInfo)) =>
       /\ stages[3].outcome = "err"
       /\ Exited /\ result = "err" /\ Len(stages) = 3
       /\ source_folders = <<>>

\* The report ended in an unfinished array and Locate failed.
C8_Witness ==
  StageFailed(3) /\ Launched("info") /\ conan.info = <<"[", "{">> /\ err = "json"

\* C9: the resolved output is the --out path verbatim when given, else
\* "<reference>/build/docs/<name>_<version>"; the stage fails only when that
\* path is not text, and it creates nothing.
C9_OutputResolved ==
  StageDone(4) =>
    /\ (args.out.some /\ from_utf8(args.out.path).ok) =>
         StageOk(4) /\ output_str = args.out.path
    /\ (args.out.some /\ ~from_utf8(args.out.path).ok) => StageFailed(4)
    /\ ~args.out.some =>
         /\ StageOk(4)
         /\ output_str = args.src \o <<"/", "b", "u", "i", "l", "d", "/", "d", "o", "c", "s", "/">>
                                  \o name \o <<"_">> \o version
         /\ (args.src = <<"p", "k", "g">> /\ name = <<"f", "o", "o">>
             /\ version = <<"1", ".", "2">>) =>
              output_str = <<"p", "k", "g", "/", "b", "u", "i", "l", "d", "/", "d", "o", "c",
                             "s", "/", "f", "o", "o", "_", "1", ".", "2">>
    /\ (run = 1 /\ Len(stages) = 4) => fs = EmptyFs

\* The default path was resolved for package foo 1.2.
C9_Witness ==
  StageOk(4) /\ ~args.out.some /\ name = <<"f", "o", "o">> /\ pc = "Render"

\* C10: two successful calls of generate_doxyfile with the same name,
\* version, sources and output, and the same template, leave the same
\* DoxyFile contents.
C10_RenderIdempotent ==
  \A i, j \in 1..Len(renders) :
    (renders[i].data = renders[j].data /\ renders[i].template = renders[j].template)
      => renders[i].contents = renders[j].contents

\* The config was rendered a second time from the same values.
C10_Witness ==
  /\ Len(renders) = 2 /\ renders[1].contents # <<>>
  /\ renders[1].data = renders[2].data /\ renders[1].template = renders[2].template

\* The path ResolveOutput decides on.
ChosenOutput ==
  IF args.out.some THEN args.out.path
  ELSE args.src \o <<"/", "b", "u", "i", "l", "d", "/", "d", "o", "c", "s", "/">>
                \o name \o <<"_">> \o version

UiHas(ev, st) == \E k \in 1..Len(ui) : ui[k].ev = ev /\ ui[k].what = st

\* C12: a stage that does not succeed ends with an error value: its
\* indicator is finished with the error message, no further stage runs and
\* main returns the error.
C12_ErrorsPropagate ==
  \A i \in 1..Len(stages) :
    (stages[i].stage # "Open" /\ stages[i].outcome # "ok") =>
      /\ stages[i].outcome = "err"
      /\ Exited /\ result = "err" /\ Len(stages) = i
      /\ i >= 2 => UiHas("finish_error", stages[i].stage)

\* C13: a Render stage that does not succeed ended with an error value
\* returned by generate_doxyfile, a template error or an I/O error, and the
\* generator is not run.
C13_RenderErrors ==
  (StageDone(5) /\ ~StageOk(5)) =>
    /\ stages[5].outcome = "err"
    /\ err \in {"template", "io"}
    /\ Len(stages) = 5 /\ Exited /\ ~Attempted("doxygen")

InspectCommands == {"inspect name", "inspect version", "inspect requires"}

\* What the package manager answered cannot be used: an answer is not text,
\* or the name or the version is missing from it.
UnusableAnswer ==
  \/ ~from_utf8(conan.name).ok \/ ~from_utf8(conan.version).ok
  \/ ~from_utf8(conan.requires).ok
  \/ conan.name = <<>> \/ conan.version = <<>>

\* C14: once Inspect is over, if one of its calls could not be launched, an
\* answer is not text, or the name or version is missing, then Inspect failed
\* and it is the only stage of the run.
C14_InspectorFails ==
  StageDone(1) =>
    (((\E i \in 1..Len(cmds) : cmds[i].cmd \in InspectCommands /\ ~cmds[i].launched)
       \/ UnusableAnswer)
     => StageFailed(1) /\ Len(stages) = 1 /\ Exited)

\* C15: when the generator exited with success and the entry page
\* <output>/html/index.html does not exist, the run ends with the
\* path-resolution error, prints no success line and never tries the viewer.
C15_MissingEntryPage ==
  (Exited /\ StageOk(6) /\ status = "success"
     /\ ~FileExists(fs, output_str \o <<"/", "h", "t", "m", "l", "/",
                                        "i", "n", "d", "e", "x", ".", "h", "t", "m", "l">>)) =>
    /\ result = "err" /\ err = "canonicalize"
    /\ ~UiHas("println", "success")
    /\ ~Attempted("open")
    /\ Len(stages) = 6

\* --open was given, the generator reported success, there is no entry page.
C15_Witness ==
  Exited /\ args.open /\ StageOk(6) /\ status = "success" /\ err = "canonicalize"

\* C16: the Install stage succeeds exactly when the install command could be
\* launched, whatever its exit status; after a launched install the indicator
\* shows success and main goes on to Locate.
C16_InstallExitIgnored ==
  StageDone(2) =>
    /\ StageOk(2) <=> Launched("install")
    /\ StageOk(2) => UiHas("finish_ok", "Install") /\ (pc = "Locate" \/ StageDone(3))
    /\ ~StageOk(2) => stages[2].outcome = "err" /\ err = "launch" /\ Len(stages) = 2

\* The install exited non-zero and Locate ran after it.
C16_Witness ==
  /\ \E i \in 1..Len(cmds) :
       cmds[i].cmd = "install" /\ cmds[i].launched /\ cmds[i].exit = "failure"
  /\ StageOk(2) /\ StageDone(3)

CmdOrder ==
  <<"inspect name", "inspect version", "inspect requires", "install", "info",
    "doxygen", "open">>
CmdIndex(c) == CHOOSE k \in 1..Len(CmdOrder) : CmdOrder[k] = c
StageIndex(st) == CHOOSE k \in 1..Len(Order) : Order[k] = st

\* C17: within a run the stages entered and the commands attempted follow
\* the fixed order strictly: none occurs twice and none comes after a later one.
C17_AtMostOnce ==
  /\ \A i, j \in 1..Len(stages) :
       i < j => StageIndex(stages[i].stage) < StageIndex(stages[j].stage)
  /\ \A i, j \in 1..Len(cmds) :
       i < j => CmdIndex(cmds[i].cmd) < CmdIndex(cmds[j].cmd)

\* A run that attempted all seven commands, the viewer included.
C17_Witness ==
  Exited /\ Len(cmds) = 7 /\ Len(stages) = 7

\* C18: each start of an indicator is directly followed by its one final
\* message, the success message when the stage's work succeeded and the error
\* message when it did not, before anything else is shown.
C18_IndicatorFinished ==
  \A k \in 1..Len(ui) :
    ui[k].ev = "start" =>
      /\ k < Len(ui)
      /\ ui[k + 1].what = ui[k].what
      /\ ui[k + 1].ev \in {"finish_ok", "finish_error"}
      /\ \A i \in 1..Len(stages) :
           stages[i].stage = ui[k].what =>
             (ui[k + 1].ev = "finish_ok" <=> stages[i].outcome = "ok")

\* C19: a run whose package reference is not text ends with success having
\* entered no stage, attempted no command, shown nothing and written nothing.
C19_NonTextReference ==
  (args.valid /\ ~from_utf8(args.src).ok /\ pc # "main") =>
    /\ Exited /\ result = "ok" /\ ExitCode = 0
    /\ stages = <<>> /\ cmds = <<>> /\ ui = <<>>
    /\ fs = EmptyFs /\ renders = <<>>

\* The second run with a reference that is not text is over.
C19_Witness ==
  Exited /\ run = 2 /\ args.valid /\ ~from_utf8(args.src).ok /\ result = "ok"

\* C20: after a Render stage that failed on the template, the folder
\* <output>/.doxy exists and <output>/.doxy/DoxyFile exists and is empty,
\* whatever an earlier run had rendered into it.
C20_TemplateFailureLeavesFile ==
  (StageDone(5) /\ err = "template") =>
    LET folder == output_str \o <<"/", ".", "d", "o", "x", "y">>
        file == folder \o <<"/", "D", "o", "x", "y", "F", "i", "l", "e">>
    IN /\ folder \in fs.dirs
       /\ FileExists(fs, file)
       /\ fs.files[file] = <<>>
       /\ Exited /\ Len(stages) = 5

\* The first run rendered a non-empty config; the second run, for the same
\* output, failed on the template.
C20_Witness ==
  /\ run = 2 /\ StageDone(5) /\ err = "template"
  /\ renders # <<>>
  /\ renders[1].data.output = output_str
  /\ renders[1].contents # <<>>

====
